---------------------------- MODULE Spec2Model ----------------------------
(***************************************************************************)
(* A model of xword.py: the crossword model builder (Puzzle.__init__), the *)
(* key handler (Puzzle.handle) and the navigation and editing operations   *)
(* it dispatches to.                                                       *)
(*                                                                         *)
(* Coordinates are 0-based as in the source; Python lists are sequences,   *)
(* so grid[y][x] of the source is grid[y + 1][x + 1] here.  References to  *)
(* a Square are its coordinates <<x, y>>, references to a Clue are its     *)
(* 1-based index in clues[direction]; None is NoSquare / NoClue.           *)
(***************************************************************************)
EXTENDS Integers, Sequences, FiniteSets, TLC

VARIABLES
    file,      \* the file: the answer and buffer grids (rows of characters), the
               \* header's clue count and the characters after the grids
    pc,        \* "start" | "failed" | "parsed" | "run" | "crashed" | "exit"
    puzzle,    \* the Puzzle object (self)
    pending    \* the nested getkey() the handler is blocked in, or "none"

vars == <<file, pc, puzzle, pending>>

----------------------------------------------------------------------------
(* Module constants of xword.py *)

BLACK == "."

EMPTY == "-"

NORMAL == " "

PENCIL == "?"

CROSS == "x"

DIRECTIONS == <<"across", "down">>

NoSquare == <<>>

NoClue == 0

NoNumber == 0

NoLetter == "None"

----------------------------------------------------------------------------
(* Bounds of the model *)

\* the builder and the navigation are explored on every grid of at most
\* MaxCells squares (3 x 3, 2 x 4, 1 x 9, ...)
MaxCells == 9

\* reveal is explored on every grid of at most RevealCells squares
RevealCells == 6

\* check is explored on every grid of at most CheckCells squares under every
\* assignment of buffers
CheckCells == 4

\* parse is explored on headers that declare at most MaxClues clues and on
\* at most MaxData characters after the grids
MaxClues == 3

\* typing and backspace are explored on every grid of at most InsertCells
\* squares
InsertCells == 5

\* the searches are explored on every grid of at most FindCells squares
FindCells == 3

\* grids of the files that start partly filled have at most this many squares
MarkCells == 2

MaxData == 7

----------------------------------------------------------------------------
(* class Square *)

Square(x, y, answer, buffer) ==
    [x |-> x, y |-> y, answer |-> answer, buffer |-> buffer,
     status |-> NORMAL, number |-> NoNumber,
     clues |-> [across |-> NoClue, down |-> NoClue],
     prev  |-> [across |-> NoSquare, down |-> NoSquare],
     next  |-> [across |-> NoSquare, down |-> NoSquare]]

Square_black(square) == square.answer = BLACK

Square_empty(square) == square.buffer = EMPTY

\* variant: an empty square counts as wrong
Square_wrong_any(square) == square.buffer # square.answer

Square_wrong(square) == ~Square_empty(square) /\ square.buffer # square.answer

(* class Clue *)

Clue(number, text, span) ==
    [number |-> number, text |-> text, span |-> span,
     prev |-> NoClue, next |-> NoClue]

----------------------------------------------------------------------------
(* Puzzle.__init__ : the grid *)

MakeGrid(answer, buffer) ==
    [r \in 1..Len(answer) |->
        [c \in 1..Len(answer[r]) |->
            Square(c - 1, r - 1, answer[r][c], buffer[r][c])]]

GridWidth(grid) == Len(grid[1])

GridHeight(grid) == Len(grid)

\* the Square object a reference <<x, y>> denotes
At(grid, xy) == grid[xy[2] + 1][xy[1] + 1]

\* the rows of the grid (across) or its columns, zip(*grid) (down)
GridLines(grid, direction) ==
    IF direction = "across"
    THEN [r \in 1..GridHeight(grid) |->
            [c \in 1..GridWidth(grid) |-> <<c - 1, r - 1>>]]
    ELSE [c \in 1..GridWidth(grid) |->
            [r \in 1..GridHeight(grid) |-> <<c - 1, r - 1>>]]

\* the squares of the grid in the order of "for row in grid: for square in row"
RowMajor(grid) ==
    [i \in 1..(GridWidth(grid) * GridHeight(grid)) |->
        <<(i - 1) % GridWidth(grid), (i - 1) \div GridWidth(grid)>>]

\* length of the first group itertools.groupby yields for line
RECURSIVE GroupLen(_, _, _)
GroupLen(grid, line, n) ==
    IF n < Len(line)
       /\ Square_black(At(grid, line[n + 1])) = Square_black(At(grid, line[1]))
    THEN GroupLen(grid, line, n + 1)
    ELSE n

\* groupby(row, key = black), keeping the groups of white squares
RECURSIVE WhiteGroups(_, _)
WhiteGroups(grid, line) ==
    IF line = <<>> THEN <<>>
    ELSE LET n    == GroupLen(grid, line, 1)
             rest == WhiteGroups(grid, SubSeq(line, n + 1, Len(line)))
         IN  IF Square_black(At(grid, line[1]))
             THEN rest
             ELSE <<SubSeq(line, 1, n)>> \o rest

\* spans[direction]: first square of a run |-> the run
SpanDict(grid, direction) ==
    LET lines == GridLines(grid, direction)
        runs  == UNION {{WhiteGroups(grid, lines[l])[k] :
                            k \in 1..Len(WhiteGroups(grid, lines[l]))} :
                        l \in 1..Len(lines)}
    IN  [first \in {run[1] : run \in runs} |->
            CHOOSE run \in runs : run[1] = first]

Spans(grid) ==
    [across |-> SpanDict(grid, "across"), down |-> SpanDict(grid, "down")]

----------------------------------------------------------------------------
(* Puzzle.__init__ : clue numbers *)

\* variant: the first square of the span is left out ("span[1:]")
RECURSIVE SetClues_rest(_, _, _, _, _)
SetClues_rest(grid, span, direction, clue, k) ==
    IF k > Len(span) THEN grid
    ELSE SetClues_rest(
            IF k = 1 THEN grid
            ELSE [grid EXCEPT ![span[k][2] + 1][span[k][1] + 1].clues[direction] = clue],
            span, direction, clue, k + 1)

\* "for other_square in span: other_square.clues[direction] = clue"
RECURSIVE SetClues(_, _, _, _, _)
SetClues(grid, span, direction, clue, k) ==
    IF k > Len(span) THEN grid
    ELSE SetClues([grid EXCEPT ![span[k][2] + 1][span[k][1] + 1].clues[direction] = clue],
                  span, direction, clue, k + 1)

\* the body of "for direction in DIRECTIONS" for one square
AssignDirection(st, xy, direction, spans) ==
    IF xy \notin DOMAIN spans[direction] THEN st
    ELSE LET span   == spans[direction][xy]
             clue   == Clue(st.number, st.text, span)
             clues  == [st.clues EXCEPT ![direction] = Append(@, clue)]
             marked == [st.grid EXCEPT ![xy[2] + 1][xy[1] + 1].number = st.number]
         IN  [st EXCEPT !.clues = clues,
                        !.text = @ + 1,
                        !.grid = SetClues(marked, span, direction,
                                          Len(clues[direction]), 1),
                        !.numbered = TRUE]

\* variant: "if numbered" is dropped, the number grows at every square
AssignSquare_always(st, xy, spans) ==
    LET s0 == [st EXCEPT !.numbered = FALSE]
        s1 == AssignDirection(s0, xy, DIRECTIONS[1], spans)
        s2 == AssignDirection(s1, xy, DIRECTIONS[2], spans)
    IN  [s2 EXCEPT !.number = @ + 1]

\* the body of "for square in row"
AssignSquare(st, xy, spans) ==
    LET s0 == [st EXCEPT !.numbered = FALSE]
        s1 == AssignDirection(s0, xy, DIRECTIONS[1], spans)
        s2 == AssignDirection(s1, xy, DIRECTIONS[2], spans)
    IN  IF s2.numbered THEN [s2 EXCEPT !.number = @ + 1] ELSE s2

RECURSIVE AssignFrom(_, _, _, _)
AssignFrom(st, order, i, spans) ==
    IF i > Len(order) THEN st
    ELSE AssignFrom(AssignSquare(st, order[i], spans), order, i + 1, spans)

AssignNumbers(grid) ==
    AssignFrom([number |-> 1, text |-> 1, numbered |-> FALSE, grid |-> grid,
                clues |-> [across |-> <<>>, down |-> <<>>]],
               RowMajor(grid), 1, Spans(grid))

----------------------------------------------------------------------------
(* Puzzle.__init__ : doubly-link clues and squares *)

\* "for square in clue.span": prev_square is carried in lk
RECURSIVE LinkSquares(_, _, _, _)
LinkSquares(lk, direction, span, k) ==
    IF k > Len(span) THEN lk
    ELSE LET sq == span[k]
             pv == lk.prev_square
             g1 == IF pv = NoSquare THEN lk.grid
                   ELSE [lk.grid EXCEPT
                            ![sq[2] + 1][sq[1] + 1].prev[direction] = pv,
                            ![pv[2] + 1][pv[1] + 1].next[direction] = sq]
         IN  LinkSquares([lk EXCEPT !.grid = g1, !.prev_square = sq],
                         direction, span, k + 1)

\* variant: "clue.prev = prev_clue" is left out
RECURSIVE LinkClues_forward(_, _, _)
LinkClues_forward(lk, direction, i) ==
    IF i > Len(lk.clues) THEN lk
    ELSE LET pc0 == lk.prev_clue
             c1  == IF pc0 = NoClue THEN lk.clues
                    ELSE [lk.clues EXCEPT ![pc0].next = i]
             l1  == [lk EXCEPT !.clues = c1, !.prev_clue = i]
         IN  LinkClues_forward(LinkSquares(l1, direction, lk.clues[i].span, 1),
                               direction, i + 1)

\* "for clue in clues": prev_clue and prev_square are carried in lk
RECURSIVE LinkClues(_, _, _)
LinkClues(lk, direction, i) ==
    IF i > Len(lk.clues) THEN lk
    ELSE LET pc0 == lk.prev_clue
             c1  == IF pc0 = NoClue THEN lk.clues
                    ELSE [lk.clues EXCEPT ![i].prev = pc0, ![pc0].next = i]
             l1  == [lk EXCEPT !.clues = c1, !.prev_clue = i]
         IN  LinkClues(LinkSquares(l1, direction, lk.clues[i].span, 1),
                       direction, i + 1)

LinkDirection(grid, clues, direction) ==
    LinkClues([grid |-> grid, clues |-> clues,
               prev_clue |-> NoClue, prev_square |-> NoSquare], direction, 1)

----------------------------------------------------------------------------
(* parse: the strings after the grids *)

NUL == "NUL"

\* str.removesuffix('\0')
removesuffix(data) ==
    IF data # <<>> /\ data[Len(data)] = NUL
    THEN SubSeq(data, 1, Len(data) - 1)
    ELSE data

\* str.split('\0'): the pieces between the separators, [''] for ''
RECURSIVE split(_)
split(data) ==
    IF \A i \in 1..Len(data) : data[i] # NUL THEN <<data>>
    ELSE LET i == CHOOSE j \in 1..Len(data) :
                     data[j] = NUL /\ \A k \in 1..(j - 1) : data[k] # NUL
         IN  <<SubSeq(data, 1, i - 1)>> \o split(SubSeq(data, i + 1, Len(data)))

\* strings[a:b] of a Python list (0-based, b exclusive, clipped to the list)
slice(strings, a, b) ==
    SubSeq(strings, a + 1, IF b < Len(strings) THEN b ELSE Len(strings))

\* lines 703-709: strings[1] and strings[2] raise IndexError when missing,
\* the assert raises AssertionError
parse(f) ==
    LET strings  == split(removesuffix(f.data))
        cluelist == slice(strings, 3, 3 + f.nclues)
        notes    == slice(strings, 3 + f.nclues, Len(strings))
    IN  [error    |-> IF Len(strings) < 3 THEN "IndexError"
                      ELSE IF Len(cluelist) # f.nclues THEN "AssertionError"
                      ELSE "none",
         strings  |-> strings,
         cluelist |-> cluelist,
         notes    |-> notes]

\* "puzzle = parse(sys.argv[1])" up to the call of Puzzle(...)
Parse ==
    /\ pc = "start"
    /\ pc' = CASE parse(file).error = "none"           -> "parsed"
              [] parse(file).error = "AssertionError" -> "failed"
              [] OTHER                                 -> "crashed"
    /\ UNCHANGED <<file, puzzle, pending>>

----------------------------------------------------------------------------
(* Puzzle.__init__ *)

NoPuzzle ==
    [grid |-> <<>>, width |-> 0, height |-> 0,
     clues |-> [across |-> <<>>, down |-> <<>>],
     mode |-> "normal", direction |-> "across", x |-> 0, y |-> 0,
     find_letter |-> NoLetter, find_forward |-> NoLetter, message |-> <<"">>]

\* the structure built before the cursor is placed (lines 80-138)
Build(answer, buffer) ==
    LET grid0 == MakeGrid(answer, buffer)
        nb    == AssignNumbers(grid0)
        la    == LinkDirection(nb.grid, nb.clues.across, "across")
        ld    == LinkDirection(la.grid, nb.clues.down, "down")
    IN  [grid |-> ld.grid, width |-> GridWidth(grid0), height |-> GridHeight(grid0),
         clues |-> [across |-> la.clues, down |-> ld.clues]]

\* clues[direction][0] of line 146 raises IndexError on a grid without white squares
Constructible(answer) ==
    \E r \in 1..Len(answer) : \E c \in 1..Len(answer[r]) : answer[r][c] # BLACK

\* the number of times the numbering calls next(cluelist)
NClues(answer, buffer) ==
    LET nb == AssignNumbers(MakeGrid(answer, buffer))
    IN  Len(nb.clues.across) + Len(nb.clues.down)

\* next(cluelist) of line 113 raises StopIteration when the texts run out
Supplied(answer, buffer, cluelist) == Len(cluelist) >= NClues(answer, buffer)

NewPuzzle(answer, buffer) ==
    LET b == Build(answer, buffer)
    IN  [grid |-> b.grid, width |-> b.width, height |-> b.height, clues |-> b.clues,
         mode |-> "normal", direction |-> "across",
         x |-> b.clues.across[1].span[1][1],
         y |-> b.clues.across[1].span[1][2],
         find_letter |-> NoLetter, find_forward |-> NoLetter, message |-> <<"">>]

Construct ==
    /\ pc = "parsed"
    /\ IF /\ Supplied(file.answer, file.buffer, parse(file).cluelist)
          /\ Constructible(file.answer)
       THEN /\ puzzle' = NewPuzzle(file.answer, file.buffer)
            /\ pc' = "run"
       ELSE /\ puzzle' = puzzle
            /\ pc' = "crashed"
    /\ UNCHANGED <<file, pending>>

----------------------------------------------------------------------------
(* string.ascii_lowercase, string.ascii_uppercase and str.upper() *)

ascii_lowercase ==
    <<"a", "b", "c", "d", "e", "f", "g", "h", "i", "j", "k", "l", "m",
      "n", "o", "p", "q", "r", "s", "t", "u", "v", "w", "x", "y", "z">>

ascii_uppercase ==
    <<"A", "B", "C", "D", "E", "F", "G", "H", "I", "J", "K", "L", "M",
      "N", "O", "P", "Q", "R", "S", "T", "U", "V", "W", "X", "Y", "Z">>

LOWERCASE == {ascii_lowercase[i] : i \in 1..Len(ascii_lowercase)}

UPPERCASE == {ascii_uppercase[i] : i \in 1..Len(ascii_uppercase)}

upper(key) ==
    IF key \in LOWERCASE
    THEN ascii_uppercase[CHOOSE i \in 1..Len(ascii_lowercase) : ascii_lowercase[i] = key]
    ELSE key

\* the keys curses reports that have no printable spelling here
TAB == "\t"

ESC == "ESC"

DEL == "DEL"

----------------------------------------------------------------------------
(* class Square: methods *)

\* variant: a plain letter keeps the status the square had
Square_set_keep(square, letter, pencil) ==
    [square EXCEPT !.buffer = letter,
                   !.status = IF pencil THEN PENCIL ELSE square.status]

Square_set(square, letter, pencil) ==
    [square EXCEPT !.buffer = letter,
                   !.status = IF pencil THEN PENCIL ELSE NORMAL]

Square_unset(square) == Square_set(square, EMPTY, FALSE)

\* variant: only a normal square becomes pencil, a cross becomes normal
Square_toggle_pencil_normal(square) ==
    [square EXCEPT !.status = IF square.status = NORMAL THEN PENCIL ELSE NORMAL]

Square_toggle_pencil(square) ==
    [square EXCEPT !.status = IF square.status = PENCIL THEN NORMAL ELSE PENCIL]

Square_erase(square) ==
    IF square.status = PENCIL THEN [square EXCEPT !.status = NORMAL] ELSE square

\* variant: every filled square is marked
Square_mark_filled(square) ==
    IF ~Square_empty(square) THEN [square EXCEPT !.status = CROSS] ELSE square

Square_mark(square) ==
    IF Square_wrong(square) THEN [square EXCEPT !.status = CROSS] ELSE square

\* variant: the buffer is written back instead of the answer
Square_reveal_buffer(square) ==
    [square EXCEPT !.status = NORMAL]

Square_reveal(square) == Square_set(square, square.answer, FALSE)

----------------------------------------------------------------------------
(* class Puzzle: properties *)

\* the reference to self.square
cursor(p) == <<p.x, p.y>>

square(p) == At(p.grid, cursor(p))

\* p with the Square object at xy replaced
WithSquare(p, xy, sq) == [p EXCEPT !.grid[xy[2] + 1][xy[1] + 1] = sq]

next_square(p) == square(p).next[p.direction]

prev_square(p) == square(p).prev[p.direction]

\* the generator "while square is not None: yield square; square = square.<link>[direction]"
RECURSIVE Follow(_, _, _)
Follow(p, sq, link) ==
    IF sq = NoSquare THEN <<>>
    ELSE <<sq>> \o Follow(p, At(p.grid, sq)[link][p.direction], link)

next_squares(p) == Follow(p, next_square(p), "next")

\* variant: the backward generator follows the next links as well
prev_squares_next(p) == Follow(p, next_square(p), "next")

prev_squares(p) == Follow(p, prev_square(p), "prev")

clue(p) == p.clues[p.direction][square(p).clues[p.direction]]

next_clue(p) == clue(p).next

prev_clue(p) == clue(p).prev

other_direction(p) == IF p.direction = "across" THEN "down" ELSE "across"

in_range(p, x, y) == 0 <= x /\ x < p.width /\ 0 <= y /\ y < p.height

get(p, x, y) == IF ~in_range(p, x, y) THEN NoSquare ELSE <<x, y>>

----------------------------------------------------------------------------
(* class Puzzle: navigation *)

jump(p, sq) == [p EXCEPT !.x = sq[1], !.y = sq[2]]

\* variant: the loop does not look at the colour of the square it reaches
move_loop_any(p, x, y, dx, dy) ==
    IF get(p, x, y) = NoSquare THEN p ELSE [p EXCEPT !.x = x, !.y = y]

\* variant: the loop gives up at the first black square
move_loop_stop(p, x, y, dx, dy) ==
    IF get(p, x, y) = NoSquare \/ Square_black(At(p.grid, <<x, y>>))
    THEN p
    ELSE [p EXCEPT !.x = x, !.y = y]

\* the "while True" loop of move
RECURSIVE move_loop(_, _, _, _, _)
move_loop(p, x, y, dx, dy) ==
    LET nsq == get(p, x, y)
    IN  IF nsq = NoSquare THEN p
        ELSE IF Square_black(At(p.grid, nsq)) THEN move_loop(p, x + dx, y + dy, dx, dy)
        ELSE jump(p, nsq)

move(p, dx, dy) == move_loop(p, p.x + dx, p.y + dy, dx, dy)

start(p) == jump(p, clue(p).span[1])

end(p) == jump(p, clue(p).span[Len(clue(p).span)])

\* variant: the cursor goes to the start of the clue of the new direction
toggle_start(p) == start([p EXCEPT !.direction = other_direction(p)])

toggle(p) == [p EXCEPT !.direction = other_direction(p)]

\* variant: past the last clue the list wraps without switching direction
next_same(p) ==
    IF next_clue(p) # NoClue
    THEN jump(p, p.clues[p.direction][next_clue(p)].span[1])
    ELSE jump(p, p.clues[p.direction][1].span[1])

next(p) ==
    IF next_clue(p) # NoClue
    THEN jump(p, p.clues[p.direction][next_clue(p)].span[1])
    ELSE toggle(jump(p, p.clues[other_direction(p)][1].span[1]))

prev(p) ==
    IF prev_clue(p) # NoClue
    THEN jump(p, p.clues[p.direction][prev_clue(p)].span[1])
    ELSE toggle(jump(p, p.clues[other_direction(p)]
                            [Len(p.clues[other_direction(p)])].span[1]))

\* the lambdas handed to find: square.buffer == letter, square.empty,
\* square.status == status
BufferIs(letter) == [kind |-> "buffer", value |-> letter]

IsEmpty == [kind |-> "empty", value |-> EMPTY]

StatusIs(status) == [kind |-> "status", value |-> status]

Holds(p, condition, sq) ==
    CASE condition.kind = "buffer" -> At(p.grid, sq).buffer = condition.value
      [] condition.kind = "empty"  -> Square_empty(At(p.grid, sq))
      [] condition.kind = "status" -> At(p.grid, sq).status = condition.value

\* itertools.dropwhile(condition, squares)
RECURSIVE dropwhile(_, _, _)
dropwhile(p, condition, squares) ==
    IF squares # <<>> /\ Holds(p, condition, squares[1])
    THEN dropwhile(p, condition, Tail(squares))
    ELSE squares

\* filter(condition, squares)
filter(p, condition, squares) ==
    SelectSeq(squares, LAMBDA sq : Holds(p, condition, sq))

\* variant: the scan starts at the cursor's own square
find_from_cursor(p, condition, forward, skip_repeats) ==
    LET squares == <<cursor(p)>> \o
                      (IF forward THEN next_squares(p) ELSE prev_squares(p))
        rest    == IF skip_repeats THEN dropwhile(p, condition, squares) ELSE squares
        hits    == filter(p, condition, rest)
    IN  IF hits = <<>> THEN p ELSE jump(p, hits[1])

find(p, condition, forward, skip_repeats) ==
    LET squares == IF forward THEN next_squares(p) ELSE prev_squares(p)
        rest    == IF skip_repeats
                   THEN dropwhile(p, condition, <<cursor(p)>> \o squares)
                   ELSE squares
        hits    == filter(p, condition, rest)
    IN  IF hits = <<>> THEN p ELSE jump(p, hits[1])

\* variant: every step goes to the next clue
advance_clue(p) == next(p)

\* variant: the last square of a direction has nowhere to go
advance_stay(p) ==
    IF next_square(p) # NoSquare THEN jump(p, next_square(p)) ELSE p

advance(p) ==
    IF next_square(p) # NoSquare THEN jump(p, next_square(p)) ELSE next(p)

retreat(p) ==
    IF prev_square(p) # NoSquare THEN jump(p, prev_square(p)) ELSE end(prev(p))

----------------------------------------------------------------------------
(* class Puzzle: editing *)

type(p, key) ==
    IF key \in LOWERCASE
    THEN WithSquare(p, cursor(p), Square_set(square(p), upper(key), FALSE))
    ELSE IF key \in UPPERCASE
    THEN WithSquare(p, cursor(p), Square_set(square(p), key, TRUE))
    ELSE p

delete(p) == WithSquare(p, cursor(p), Square_unset(square(p)))

show_message(p, message) == [p EXCEPT !.message = message]

insert(p) == show_message([p EXCEPT !.mode = "insert"], <<"-- INSERT --">>)

escape(p) == show_message([p EXCEPT !.mode = "normal"], <<"">>)

\* variant: the two calls are swapped
backspace_swapped(p) == retreat(delete(p))

backspace(p) == delete(retreat(p))

reveal(p) == advance(WithSquare(p, cursor(p), Square_reveal(square(p))))

\* variant: the status is toggled on an empty square too
toggle_pencil_any(p) ==
    advance(WithSquare(p, cursor(p), Square_toggle_pencil(square(p))))

toggle_pencil(p) ==
    advance(IF ~Square_empty(square(p))
            THEN WithSquare(p, cursor(p), Square_toggle_pencil(square(p)))
            ELSE p)

----------------------------------------------------------------------------
(* class Puzzle: check *)

erase(p) ==
    [p EXCEPT !.grid = [r \in 1..Len(p.grid) |->
                           [c \in 1..Len(p.grid[r]) |-> Square_erase(p.grid[r][c])]]]

\* the scan "for row in self.grid: for square in row" of check
RECURSIVE check_scan(_, _, _, _)
check_scan(st, order, i, bang) ==
    IF i > Len(order) THEN st
    ELSE LET sq == At(st.p.grid, order[i])
         IN  IF Square_black(sq) THEN check_scan(st, order, i + 1, bang)
             ELSE check_scan(
                     [p     |-> IF bang THEN WithSquare(st.p, order[i], Square_mark(sq))
                                ELSE st.p,
                      empty |-> Append(st.empty, Square_empty(sq)),
                      wrong |-> Append(st.wrong, Square_wrong(sq))],
                     order, i + 1, bang)

all(flags) == \A i \in 1..Len(flags) : flags[i]

any(flags) == \E i \in 1..Len(flags) : flags[i]

\* sum(wrong)
nwrong(flags) == Cardinality({i \in 1..Len(flags) : flags[i]})

NothingToCheck == <<"There's nothing to check.">>

Amiss == <<"At least one square's amiss.">>

\* f"Found {nwrong} wrong square{suffix}."
Found(n) == <<"Found", n, IF n > 1 THEN "wrong squares." ELSE "wrong square.">>

DoingFine == <<"You're doing fine.">>

Congrats == <<"Congrats! You've finished the puzzle.">>

check(p, bang) ==
    LET st == check_scan([p |-> p, empty |-> <<>>, wrong |-> <<>>],
                         RowMajor(p.grid), 1, bang)
    IN  IF all(st.empty) THEN show_message(st.p, NothingToCheck)
        ELSE IF any(st.wrong)
        THEN IF bang
             THEN erase(show_message(st.p, Found(nwrong(st.wrong))))
             ELSE show_message(st.p, Amiss)
        ELSE IF any(st.empty) THEN erase(show_message(st.p, DoingFine))
        ELSE erase(show_message(st.p, Congrats))

----------------------------------------------------------------------------
(* class Puzzle: commands *)

Whitespace == {" ", "\t"}

\* bytes.strip()
RECURSIVE lstrip(_)
lstrip(line) ==
    IF line # <<>> /\ line[1] \in Whitespace THEN lstrip(Tail(line)) ELSE line

RECURSIVE rstrip(_)
rstrip(line) ==
    IF line # <<>> /\ line[Len(line)] \in Whitespace
    THEN rstrip(SubSeq(line, 1, Len(line) - 1))
    ELSE line

strip(line) == rstrip(lstrip(line))

\* what a handler hands back: the puzzle, the nested read it is blocked in,
\* and whether sys.exit() was called
Done(p) == [p |-> p, wait |-> "none", exit |-> FALSE]

Blocked(p, key) == [p |-> p, wait |-> key, exit |-> FALSE]

Exit(p) == [p |-> p, wait |-> "none", exit |-> TRUE]

Unknown(command) == <<"Unknown command", command>>

execute_command(p, line) ==
    LET command == strip(line)
    IN  IF command \in {<<"q">>, <<"q", "u", "i", "t">>} THEN Exit(p)
        ELSE IF command \in {<<"c">>, <<"c", "h", "e", "c", "k">>}
        THEN Done(check(p, FALSE))
        ELSE IF command \in {<<"c", "!">>, <<"c", "h", "e", "c", "k", "!">>}
        THEN Done(check(p, TRUE))
        ELSE IF command # <<>> THEN Done(show_message(p, Unknown(command)))
        ELSE Done(p)

\* what the status line shows while a command is typed: the prompt and the
\* echo of the line
Prompt(line) == <<":", line>>

\* type_command: getstr() hands the whole line over at once
type_command(p, line) == execute_command(show_message(p, Prompt(line)), line)

----------------------------------------------------------------------------
(* Puzzle.handle *)

\* the branch "if self.mode == 'normal'"
handle_normal(p, key, line) ==
    IF key = "k" THEN Done(move(p, 0, -1))
    ELSE IF key = "j" THEN Done(move(p, 0, 1))
    ELSE IF key = "h" THEN Done(move(p, -1, 0))
    ELSE IF key = "l" THEN Done(move(p, 1, 0))
    ELSE IF key = "0" THEN Done(start(p))
    ELSE IF key = "$" THEN Done(end(p))
    ELSE IF key = "w" THEN Done(next(p))
    ELSE IF key = "b" THEN Done(prev(p))
    ELSE IF key \in {"f", "F"} THEN Blocked(p, key)
    ELSE IF key \in {";", ","}
    THEN IF p.find_letter # NoLetter
         THEN Done(find(p, BufferIs(p.find_letter),
                        IF key = "," THEN ~p.find_forward ELSE p.find_forward,
                        FALSE))
         ELSE Done(p)
    ELSE IF key \in {"}", "{"} THEN Done(find(p, IsEmpty, key = "}", TRUE))
    ELSE IF key \in {"]", "["} THEN Blocked(p, key)
    ELSE IF key = "r" THEN Blocked(p, key)
    ELSE IF key = "x" THEN Done(delete(p))
    ELSE IF key = " " THEN Done(toggle(p))
    ELSE IF key = "i" THEN Done(insert(p))
    ELSE IF key = "a" THEN Done(insert(advance(p)))
    ELSE IF key = "~" THEN Done(toggle_pencil(p))
    ELSE IF key = ":" THEN type_command(p, line)
    ELSE Done(p)

\* the branch "else" (insert mode)
handle_insert(p, key) ==
    IF key = ESC THEN Done(escape(p))
    ELSE IF key = "j" THEN Blocked(p, key)
    ELSE IF key = DEL THEN Done(backspace(p))
    ELSE Done(advance(type(p, key)))

handle(p, key, line) ==
    IF key = TAB THEN Done(next(p))
    ELSE IF key = "?" THEN Done(reveal(p))
    ELSE IF p.mode = "normal" THEN handle_normal(p, key, line)
    ELSE handle_insert(p, key)

\* the rest of a branch of handle after its nested getkey() returned key
getkey_find(p, wait, key) ==
    LET forward == (wait = "f")
        letter  == upper(key)
        p1      == [p EXCEPT !.find_letter = letter, !.find_forward = forward]
    IN  Done(find(p1, BufferIs(letter), forward, FALSE))

getkey_status(p, wait, key) ==
    LET forward == (wait = "]")
    IN  IF key = "q" THEN Done(find(p, StatusIs(PENCIL), forward, TRUE))
        ELSE IF key = "w" THEN Done(find(p, StatusIs(CROSS), forward, TRUE))
        ELSE Done(p)

getkey_replace(p, key) == Done(type(p, key))

\* variant: the j of a broken chord is not typed
getkey_chord_drop(p, key) ==
    IF key = "k" THEN Done(escape(p))
    ELSE handle(p, key, <<>>)

getkey_chord(p, key) ==
    IF key = "k" THEN Done(escape(p))
    ELSE handle(advance(type(p, "j")), key, <<>>)

----------------------------------------------------------------------------
(* The run loop: one key per step, "self.handle(stdscr.getkey())" *)

Press(key, line) ==
    /\ pc = "run"
    /\ pending = "none"
    /\ LET r == handle(puzzle, key, line)
       IN  /\ puzzle' = r.p
           /\ pending' = r.wait
           /\ pc' = IF r.exit THEN "exit" ELSE pc
    /\ UNCHANGED file

\* the key a nested getkey() of handle returns
Getkey(r) ==
    /\ puzzle' = r.p
    /\ pending' = r.wait
    /\ pc' = IF r.exit THEN "exit" ELSE pc
    /\ UNCHANGED file

\* keys the model presses that are bound to nothing in normal mode
UnboundKeys == {"1", "z", "A", ESC, DEL}

\* keys the model presses where insert mode types: two letters, a digit, a
\* punctuation key
TypedKeys == {"a", "J", "1", "$"}

\* keys the model offers to the nested reads of f, F and r
LetterKeys == {"a", "j", "J", "1"}

\* keys the model offers to the nested reads of ] and [
StatusKeys == {"q", "w", "1"}

\* keys the model offers to the nested read of the chord j
ChordKeys == {"k", "j", "a", "1", TAB, "?", ESC, DEL}

\* lines the model answers type_command's getstr() with
Lines ==
    {<<"q">>, <<"q", "u", "i", "t">>, <<"c">>, <<"c", "h", "e", "c", "k">>,
     <<"c", "!">>, <<"c", "h", "e", "c", "k", "!">>, <<" ", "c", " ">>,
     <<>>, <<" ">>, <<"z">>}

KeyTab == Press(TAB, <<>>)

KeyReveal == Press("?", <<>>)

KeyMove == puzzle.mode = "normal" /\ \E key \in {"k", "j", "h", "l"} : Press(key, <<>>)

KeyStart == puzzle.mode = "normal" /\ Press("0", <<>>)

KeyEnd == puzzle.mode = "normal" /\ Press("$", <<>>)

KeyNext == puzzle.mode = "normal" /\ Press("w", <<>>)

KeyPrev == puzzle.mode = "normal" /\ Press("b", <<>>)

KeyFind == puzzle.mode = "normal" /\ \E key \in {"f", "F"} : Press(key, <<>>)

KeyRepeat == puzzle.mode = "normal" /\ \E key \in {";", ","} : Press(key, <<>>)

KeyFindEmpty == puzzle.mode = "normal" /\ \E key \in {"}", "{"} : Press(key, <<>>)

KeyFindStatus == puzzle.mode = "normal" /\ \E key \in {"]", "["} : Press(key, <<>>)

KeyReplace == puzzle.mode = "normal" /\ Press("r", <<>>)

KeyDelete == puzzle.mode = "normal" /\ Press("x", <<>>)

KeyToggle == puzzle.mode = "normal" /\ Press(" ", <<>>)

KeyInsert == puzzle.mode = "normal" /\ Press("i", <<>>)

KeyAppend == puzzle.mode = "normal" /\ Press("a", <<>>)

KeyTogglePencil == puzzle.mode = "normal" /\ Press("~", <<>>)

KeyCommand == puzzle.mode = "normal" /\ \E line \in Lines : Press(":", line)

KeyUnbound == puzzle.mode = "normal" /\ \E key \in UnboundKeys : Press(key, <<>>)

InsertEscape == puzzle.mode = "insert" /\ Press(ESC, <<>>)

InsertChord == puzzle.mode = "insert" /\ Press("j", <<>>)

InsertBackspace == puzzle.mode = "insert" /\ Press(DEL, <<>>)

InsertType == puzzle.mode = "insert" /\ \E key \in TypedKeys : Press(key, <<>>)

GetkeyFind ==
    /\ pc = "run"
    /\ pending \in {"f", "F"}
    /\ \E key \in LetterKeys : Getkey(getkey_find(puzzle, pending, key))

GetkeyStatus ==
    /\ pc = "run"
    /\ pending \in {"]", "["}
    /\ \E key \in StatusKeys : Getkey(getkey_status(puzzle, pending, key))

GetkeyReplace ==
    /\ pc = "run"
    /\ pending = "r"
    /\ \E key \in LetterKeys : Getkey(getkey_replace(puzzle, key))

GetkeyChord ==
    /\ pc = "run"
    /\ pending = "j"
    /\ \E key \in ChordKeys : Getkey(getkey_chord(puzzle, key))

----------------------------------------------------------------------------
(* Specifications *)

\* the buffer grid of an unsolved file: "." under black squares, "-" elsewhere
BlankBuffer(answer) ==
    [r \in 1..Len(answer) |->
        [c \in 1..Len(answer[r]) |->
            IF answer[r][c] = BLACK THEN BLACK ELSE EMPTY]]

\* the characters after the grids of a file with n clues "c": empty title,
\* author and copyright, the clues, empty notes
RECURSIVE Data(_)
Data(n) == IF n = 0 THEN <<NUL, NUL, NUL, NUL>>
           ELSE <<NUL, NUL, NUL, "c", NUL>> \o SubSeq(Data(n - 1), 4, Len(Data(n - 1)))

\* a file with these grids and as many clues as the answer grid asks for
FileOf(answer, buffer) ==
    [answer |-> answer, buffer |-> buffer,
     nclues |-> NClues(answer, buffer), data |-> Data(NClues(answer, buffer))]

Unsolved(answer) == FileOf(answer, BlankBuffer(answer))

\* every grid of at most cells squares
Grids(cells) ==
    UNION {[1..h -> [1..w -> {BLACK, "A"}]] :
             <<w, h>> \in {wh \in (1..cells) \X (1..cells) : wh[1] * wh[2] <= cells}}

\* the files the editing is explored on: a row and a column with a black
\* square to step over, and a row that is one two-square clue
Files ==
    {Unsolved(<<<<"A", ".", "J">>>>),
     Unsolved(<<<<"J">>, <<".">>, <<"A">>>>),
     Unsolved(<<<<"A", "J">>>>)}

InitWith(files) ==
    /\ file \in files
    /\ pc = "parsed"
    /\ puzzle = NoPuzzle
    /\ pending = "none"

\* the whole program on the files of Files
Init == InitWith(Files)

Next ==
    \/ Construct
    \/ KeyTab \/ KeyReveal
    \/ KeyMove \/ KeyStart \/ KeyEnd \/ KeyNext \/ KeyPrev
    \/ KeyFind \/ KeyRepeat \/ KeyFindEmpty \/ KeyFindStatus
    \/ KeyReplace \/ KeyDelete \/ KeyToggle \/ KeyInsert \/ KeyAppend
    \/ KeyTogglePencil \/ KeyCommand \/ KeyUnbound
    \/ InsertEscape \/ InsertChord \/ InsertBackspace \/ InsertType
    \/ GetkeyFind \/ GetkeyStatus \/ GetkeyReplace \/ GetkeyChord

Spec == Init /\ [][Next]_vars

\* the builder alone, on every grid of at most MaxCells squares
InitBuild == InitWith({Unsolved(answer) : answer \in Grids(MaxCells)})

NextBuild == Construct

SpecBuild == InitBuild /\ [][NextBuild]_vars

\* the builder and the keys that only move the cursor or switch the mode, on
\* every grid of at most MaxCells squares
NextNav ==
    \/ Construct
    \/ KeyTab
    \/ KeyMove \/ KeyStart \/ KeyEnd \/ KeyNext \/ KeyPrev
    \/ KeyToggle \/ KeyInsert \/ KeyAppend \/ KeyUnbound
    \/ InsertEscape

SpecNav == InitBuild /\ [][NextNav]_vars

\* the builder, reveal and the commands, on every grid of at most RevealCells
\* squares
InitReveal == InitWith({Unsolved(answer) : answer \in Grids(RevealCells)})

NextReveal == Construct \/ KeyReveal \/ KeyCommand

SpecReveal == InitReveal /\ [][NextReveal]_vars

\* a file of at most CheckCells squares in any state of progress: white
\* squares (answer A) empty, right or wrong; black squares with "." or a
\* stray letter in the buffer
CheckFiles ==
    LET cells == {<<BLACK, BLACK>>, <<BLACK, "J">>,
                  <<"A", EMPTY>>, <<"A", "A">>, <<"A", "J">>}
        grids == UNION {[1..h -> [1..w -> cells]] :
                          <<w, h>> \in {wh \in (1..CheckCells) \X (1..CheckCells) :
                                           wh[1] * wh[2] <= CheckCells}}
    IN  {FileOf([r \in 1..Len(g) |-> [c \in 1..Len(g[r]) |-> g[r][c][1]]],
                [r \in 1..Len(g) |-> [c \in 1..Len(g[r]) |-> g[r][c][2]]]) :
            g \in grids}

InitCheck == InitWith(CheckFiles)

NextCheck == Construct \/ KeyCommand

SpecCheck == InitCheck /\ [][NextCheck]_vars

\* the builder and the keys of insert mode, on every grid of at most
\* InsertCells squares
InitInsert == InitWith({Unsolved(answer) : answer \in Grids(InsertCells)})

NextInsert ==
    \/ Construct
    \/ KeyMove \/ KeyToggle \/ KeyInsert
    \/ InsertType \/ InsertBackspace \/ InsertEscape

SpecInsert == InitInsert /\ [][NextInsert]_vars

\* the builder, the keys that fill and mark squares from normal mode and the
\* searches, on every grid of at most FindCells squares
InitFind == InitWith({Unsolved(answer) : answer \in Grids(FindCells)})

NextFind ==
    \/ Construct
    \/ KeyMove \/ KeyToggle
    \/ KeyReplace \/ GetkeyReplace \/ KeyDelete
    \/ KeyFind \/ GetkeyFind \/ KeyRepeat
    \/ KeyFindEmpty \/ KeyFindStatus \/ GetkeyStatus

SpecFind == InitFind /\ [][NextFind]_vars

\* files whose buffer grid is partly filled, wrongly, and may hold a letter
\* under a black square, on every grid of at most MarkCells squares
MarkFiles ==
    LET cells == {<<BLACK, BLACK>>, <<BLACK, "J">>, <<"A", EMPTY>>, <<"A", "J">>}
        grids == UNION {[1..h -> [1..w -> cells]] :
                          <<w, h>> \in {wh \in (1..MarkCells) \X (1..MarkCells) :
                                           wh[1] * wh[2] <= MarkCells}}
    IN  {FileOf([r \in 1..Len(g) |-> [c \in 1..Len(g[r]) |-> g[r][c][1]]],
                [r \in 1..Len(g) |-> [c \in 1..Len(g[r]) |-> g[r][c][2]]]) :
            g \in grids}

InitMarks == InitWith(MarkFiles)

\* the builder and every key that writes a buffer or a status, with Tab to
\* move between clues
NextMarks ==
    \/ Construct
    \/ KeyTab \/ KeyReveal
    \/ KeyReplace \/ GetkeyReplace \/ KeyDelete
    \/ KeyTogglePencil \/ KeyCommand
    \/ KeyInsert \/ InsertType \/ InsertBackspace \/ InsertEscape

SpecMarks == InitMarks /\ [][NextMarks]_vars

\* every sequence of at most n characters over chars
Strings(chars, n) == UNION {[1..k -> chars] : k \in 0..n}

\* parse and the builder on files whose header declares up to MaxClues clues
\* and whose grids are followed by up to MaxData characters
InitParse ==
    /\ file \in {[answer |-> answer, buffer |-> BlankBuffer(answer),
                   nclues |-> n, data |-> data] :
                     answer \in {<<<<"A">>>>, <<<<"A", ".", "A">>>>},
                     n \in 0..MaxClues,
                     data \in Strings({"c", NUL}, MaxData)}
    /\ pc = "start"
    /\ puzzle = NoPuzzle
    /\ pending = "none"

NextParse == Parse \/ Construct

SpecParse == InitParse /\ [][NextParse]_vars

----------------------------------------------------------------------------
(* Vocabulary of the properties, stated on the file's answer grid *)

FileW == Len(file.answer[1])

FileH == Len(file.answer)

Coords == {<<cx, cy>> : cx \in 0..(FileW - 1), cy \in 0..(FileH - 1)}

InGrid(xy) == xy \in Coords

White(xy) == InGrid(xy) /\ file.answer[xy[2] + 1][xy[1] + 1] # BLACK

Whites == {xy \in Coords : White(xy)}

Step(direction) == IF direction = "across" THEN <<1, 0>> ELSE <<0, 1>>

Shift(xy, d, n) == <<xy[1] + n * d[1], xy[2] + n * d[2]>>

\* xy is the first square of a maximal run of white squares along direction
StartsRun(xy, direction) ==
    White(xy) /\ ~White(Shift(xy, Step(direction), -1))

StartsClue(xy) == StartsRun(xy, "across") \/ StartsRun(xy, "down")

\* position in the row-major scan
Rank(xy) == xy[2] * FileW + xy[1]

Sq(xy) == At(puzzle.grid, xy)

Range(seq) == {seq[i] : i \in 1..Len(seq)}

Dirs == {"across", "down"}

ClueIds == {<<d, i>> : d \in Dirs, i \in 1..(FileW * FileH)}

IsClue(c) == c[2] \in 1..Len(puzzle.clues[c[1]])

ClueOf(c) == puzzle.clues[c[1]][c[2]]

AllWhite3x3 == <<<<"A", "A", "A">>, <<"A", "A", "A">>, <<"A", "A", "A">>>>

----------------------------------------------------------------------------
(* C9: a square is numbered iff it is white and starts a maximal white run *)
(* across or down; the numbers are 1, 2, 3, ... in row-major order without *)
(* gaps; a clue carries the number of its first square, so a square that   *)
(* starts an across and a down clue gives both the same number; the        *)
(* all-white 3x3 grid is numbered (0,0)=1 (1,0)=2 (2,0)=3 (0,1)=4 (0,2)=5. *)
C9_Numbering ==
    pc = "run" =>
        /\ \A xy \in Coords :
              /\ (Sq(xy).number # NoNumber) <=> StartsClue(xy)
              /\ StartsClue(xy) =>
                    Sq(xy).number =
                        Cardinality({c \in Coords : StartsClue(c) /\ Rank(c) <= Rank(xy)})
        /\ \A c \in ClueIds : IsClue(c) =>
              /\ StartsRun(ClueOf(c).span[1], c[1])
              /\ ClueOf(c).number = Sq(ClueOf(c).span[1]).number
        /\ \A xy \in Coords : \A d \in Dirs : StartsRun(xy, d) =>
              \E c \in ClueIds : IsClue(c) /\ c[1] = d /\ ClueOf(c).span[1] = xy
        /\ file.answer = AllWhite3x3 =>
              \A xy \in Coords :
                 Sq(xy).number =
                    CASE xy = <<0, 0>> -> 1
                      [] xy = <<1, 0>> -> 2
                      [] xy = <<2, 0>> -> 3
                      [] xy = <<0, 1>> -> 4
                      [] xy = <<0, 2>> -> 5
                      [] OTHER -> NoNumber

\* a built grid with a black square, a square that starts two clues, a square
\* that starts none, and at least three numbers
C9_Witness ==
    /\ pc = "run"
    /\ \E xy \in Coords : ~White(xy)
    /\ \E xy \in Coords : StartsRun(xy, "across") /\ StartsRun(xy, "down")
                          /\ Sq(xy).number > 1
    /\ \E xy \in Whites : ~StartsClue(xy)
    /\ \E xy \in Coords : Sq(xy).number >= 3

\* the squares of the maximal white run along direction that contains xy
RunThrough(xy, direction) ==
    {z \in Whites :
        \E n \in (0 - FileW - FileH)..(FileW + FileH) :
            /\ z = Shift(xy, Step(direction), n)
            /\ \A m \in (0 - FileW - FileH)..(FileW + FileH) :
                  (m * m <= n * n /\ m * n >= 0) => White(Shift(xy, Step(direction), m))}

(* C10: after construction every white square has its clue lookup set in  *)
(* both directions and lies in exactly one span per direction; no black    *)
(* square lies in a span; every span is a maximal contiguous run of white  *)
(* squares along its axis, in order, of length >= 1.                       *)
C10_Spans ==
    pc = "run" =>
        /\ \A xy \in Whites : \A d \in Dirs :
              /\ Sq(xy).clues[d] \in 1..Len(puzzle.clues[d])
              /\ xy \in Range(puzzle.clues[d][Sq(xy).clues[d]].span)
              /\ Cardinality({i \in 1..Len(puzzle.clues[d]) :
                                 \E k \in 1..Len(puzzle.clues[d][i].span) :
                                    puzzle.clues[d][i].span[k] = xy}) = 1
              /\ Cardinality({k \in 1..Len(puzzle.clues[d][Sq(xy).clues[d]].span) :
                                 puzzle.clues[d][Sq(xy).clues[d]].span[k] = xy}) = 1
        /\ \A xy \in Coords \ Whites : \A d \in Dirs : Sq(xy).clues[d] = NoClue
        /\ \A c \in ClueIds : IsClue(c) =>
              LET span == ClueOf(c).span
              IN  /\ Len(span) >= 1
                  /\ \A k \in 1..Len(span) :
                        span[k] = Shift(span[1], Step(c[1]), k - 1)
                  /\ Range(span) = RunThrough(span[1], c[1])

\* a built grid with a black square, an isolated white square (a clue of
\* length 1 in both directions) and a clue of length >= 2
C10_Witness ==
    /\ pc = "run"
    /\ \E xy \in Coords : ~White(xy)
    /\ \E xy \in Whites : \A d \in Dirs :
          Len(puzzle.clues[d][Sq(xy).clues[d]].span) = 1
    /\ \E c \in ClueIds : IsClue(c) /\ Len(ClueOf(c).span) >= 2

----------------------------------------------------------------------------
(* Vocabulary of the properties of the running program *)

Cur == <<puzzle.x, puzzle.y>>

\* where the constructor puts the cursor: the first white square of the scan
FirstWhite == CHOOSE xy \in Whites : \A z \in Whites : Rank(xy) <= Rank(z)

Other(direction) == IF direction = "across" THEN "down" ELSE "across"

\* index, in its direction's list, of the clue under the cursor
CurClue == Sq(Cur).clues[puzzle.direction]

CurSpan == puzzle.clues[puzzle.direction][CurClue].span

AnswerAt(xy) == file.answer[xy[2] + 1][xy[1] + 1]

\* the program waits for a key in its main loop
Ready == pc = "run" /\ pending = "none"

\* the puzzle after the handler of this key, and of this command line
After(key) == handle(puzzle, key, <<>>).p

AfterCommand(line) == handle(puzzle, ":", line).p

\* q differs from the puzzle in no square but xy, whose buffer and status
\* have become these
GridEffect(q, xy, letter, status) ==
    \A z \in Coords :
        At(q.grid, z) =
            IF z = xy
            THEN [Sq(z) EXCEPT !.buffer = letter, !.status = status]
            ELSE Sq(z)

----------------------------------------------------------------------------
(* C1: in the initial state and after every key event the cursor is inside *)
(* the grid and the square under it is not black.                          *)
C1_CursorOnWhite ==
    pc \in {"run", "exit"} =>
        /\ 0 <= puzzle.x /\ puzzle.x < FileW
        /\ 0 <= puzzle.y /\ puzzle.y < FileH
        /\ AnswerAt(Cur) # BLACK

\* the cursor has left its first square on a grid with a black square, after
\* typing, in insert mode, with the direction switched
C1_Witness ==
    /\ pc = "run"
    /\ \E xy \in Coords : ~White(xy)
    /\ Cur # FirstWhite
    /\ puzzle.mode = "insert"
    /\ puzzle.direction = "down"
    /\ \E xy \in Whites : Sq(xy).buffer # EMPTY

----------------------------------------------------------------------------
\* the clue a nextClue from clue i of direction d lands on
NextLanding(d, i) ==
    IF i < Len(puzzle.clues[d]) THEN <<d, i + 1>> ELSE <<Other(d), 1>>

\* the clue a prevClue from clue i of direction d lands on
PrevLanding(d, i) ==
    IF i > 1 THEN <<d, i - 1>> ELSE <<Other(d), Len(puzzle.clues[Other(d)])>>

\* q stands on the first square of clue c, in c's direction
LandsOn(q, c) ==
    /\ q.direction = c[1]
    /\ <<q.x, q.y>> = puzzle.clues[c[1]][c[2]].span[1]
    /\ q.grid = puzzle.grid
    /\ q.clues = puzzle.clues

\* the keys w and b of normal mode, and Tab of either mode
C2_Step ==
    Ready =>
        /\ LandsOn(After(TAB), NextLanding(puzzle.direction, CurClue))
        /\ puzzle.mode = "normal" =>
              /\ LandsOn(After("w"), NextLanding(puzzle.direction, CurClue))
              /\ LandsOn(After("b"), PrevLanding(puzzle.direction, CurClue))

RECURSIVE NextTimes(_, _)
NextTimes(p, n) == IF n = 0 THEN p ELSE NextTimes(next(p), n - 1)

ClueCount == Len(puzzle.clues.across) + Len(puzzle.clues.down)

C2_Cycle ==
    (pc = "run" /\ Cur = CurSpan[1]) =>
        LET visit(n) == NextTimes(puzzle, n)
            id(p)    == <<p.direction, At(p.grid, <<p.x, p.y>>).clues[p.direction]>>
        IN  /\ visit(ClueCount).x = puzzle.x
            /\ visit(ClueCount).y = puzzle.y
            /\ visit(ClueCount).direction = puzzle.direction
            /\ {id(visit(n)) : n \in 0..(ClueCount - 1)} = {c \in ClueIds : IsClue(c)}
            /\ Cardinality({c \in ClueIds : IsClue(c)}) = ClueCount
            /\ \A n \in 0..ClueCount :
                  <<visit(n).x, visit(n).y>> = ClueOf(id(visit(n))).span[1]

(* C2: nextClue goes to the first square of the next clue of the current   *)
(* direction's list and keeps the direction, and from the last clue of a   *)
(* list to the first square of the first clue of the other direction,      *)
(* switching direction; prevClue goes to the first square of the previous  *)
(* clue, and from the first clue of a list to the last clue of the other   *)
(* direction; K nextClue from a clue's first square (K clues in total)     *)
(* return to the same cursor and direction after visiting every clue once. *)
C2_ClueCycle == C2_Step /\ C2_Cycle

\* on a grid of at least four clues the cursor stands on the first square of
\* a down clue that is not the first of its list
C2_Witness ==
    /\ pc = "run"
    /\ ClueCount >= 4
    /\ puzzle.direction = "down"
    /\ CurClue >= 2
    /\ Cur = CurSpan[1]
    /\ Cur # FirstWhite

----------------------------------------------------------------------------
(* C3: where the cursor is not on the last square of its clue's span,      *)
(* advance followed by retreat restores the cursor and the direction and   *)
(* changes no square.                                                      *)
C3_AdvanceRetreat ==
    (pc = "run" /\ Cur # CurSpan[Len(CurSpan)]) =>
        LET q == retreat(advance(puzzle))
        IN  /\ <<advance(puzzle).x, advance(puzzle).y>> # Cur
            /\ q.x = puzzle.x
            /\ q.y = puzzle.y
            /\ q.direction = puzzle.direction
            /\ q.grid = puzzle.grid

\* the key a has advanced the cursor to the middle of a span
C3_Witness ==
    /\ pc = "run"
    /\ puzzle.mode = "insert"
    /\ Len(CurSpan) >= 3
    /\ Cur = CurSpan[2]

----------------------------------------------------------------------------
\* the puzzle after replace has read this key
Replaced(key) == getkey_replace(puzzle, key).p

(* C4: typing a lower-case letter sets the cursor square's buffer to the   *)
(* upper-cased letter and its status to normal, typing an upper-case       *)
(* letter sets the buffer to the letter and the status to pencil, whatever *)
(* the status was; delete sets the buffer to empty and the status to       *)
(* normal; no other square changes.                                        *)
C4_TypeDelete ==
    /\ (pc = "run" /\ pending = "r") =>
          /\ GridEffect(Replaced("a"), Cur, "A", NORMAL)
          /\ GridEffect(Replaced("j"), Cur, "J", NORMAL)
          /\ GridEffect(Replaced("J"), Cur, "J", PENCIL)
    /\ (Ready /\ puzzle.mode = "insert") =>
          /\ GridEffect(After("a"), Cur, "A", NORMAL)
          /\ GridEffect(After("J"), Cur, "J", PENCIL)
    /\ (Ready /\ puzzle.mode = "normal") =>
          GridEffect(After("x"), Cur, EMPTY, NORMAL)


\* a pencilled letter under the cursor, beside a square marked wrong
C4_Witness ==
    /\ pc = "run"
    /\ pending = "none"
    /\ Sq(Cur).buffer = "J"
    /\ Sq(Cur).status = PENCIL
    /\ \E xy \in Whites : Sq(xy).status = CROSS

----------------------------------------------------------------------------
CheckLines ==
    {<<"c">>, <<"c", "h", "e", "c", "k">>, <<"c", "!">>,
     <<"c", "h", "e", "c", "k", "!">>, <<" ", "c", " ">>}

Outcome(message) ==
    CASE message = NothingToCheck -> "nothing-to-check"
      [] message = Amiss          -> "has-wrong"
      [] message[1] = "Found"     -> "has-wrong"
      [] message = DoingFine      -> "doing-fine"
      [] message = Congrats       -> "complete"
      [] OTHER                    -> "none"

IsEmptyAt(xy) == Sq(xy).buffer = EMPTY

IsWrongAt(xy) == Sq(xy).buffer # EMPTY /\ Sq(xy).buffer # AnswerAt(xy)

(* C5: check classifies every assignment of buffers into exactly one of    *)
(* nothing-to-check (all white squares empty), has-wrong (not all empty, a *)
(* filled square differs from its answer), doing-fine (no filled square    *)
(* wrong, some but not all empty) and complete (all filled and right);     *)
(* the buffers of black squares play no part.                              *)
C5_Classification ==
    (Ready /\ puzzle.mode = "normal") => \A line \in CheckLines :
        LET o == Outcome(AfterCommand(line).message)
        IN  /\ o \in {"nothing-to-check", "has-wrong", "doing-fine", "complete"}
            /\ (o = "nothing-to-check") <=> (\A w \in Whites : IsEmptyAt(w))
            /\ (o = "has-wrong") <=>
                  (~(\A w \in Whites : IsEmptyAt(w)) /\ (\E w \in Whites : IsWrongAt(w)))
            /\ (o = "doing-fine") <=>
                  /\ ~(\E w \in Whites : IsWrongAt(w))
                  /\ \E w \in Whites : IsEmptyAt(w)
                  /\ ~(\A w \in Whites : IsEmptyAt(w))
            /\ (o = "complete") <=>
                  (\A w \in Whites : ~IsEmptyAt(w) /\ Sq(w).buffer = AnswerAt(w))


\* check has said doing-fine on a grid whose black square holds a letter
C5_Witness ==
    /\ pc = "run"
    /\ puzzle.message = DoingFine
    /\ \E xy \in Coords : ~White(xy) /\ Sq(xy).buffer = "J"
    /\ \E xy \in Whites : Sq(xy).buffer = "A"

----------------------------------------------------------------------------
RECURSIVE RevealTimes(_, _)
RevealTimes(p, n) == IF n = 0 THEN p ELSE RevealTimes(reveal(p), n - 1)

AllRevealed(p) == \A w \in Whites : At(p.grid, w).buffer = AnswerAt(w)

\* the state the constructor leaves
Initial ==
    /\ pc = "run"
    /\ Cur = FirstWhite
    /\ puzzle.direction = "across"
    /\ \A w \in Whites : Sq(w).buffer = EMPTY /\ Sq(w).status = NORMAL

C6_FromInitial ==
    Initial =>
        LET q == RevealTimes(puzzle, Cardinality(Whites))
        IN  /\ AllRevealed(q)
            /\ check(q, FALSE).message = Congrats
            /\ check(q, TRUE).message = Congrats

C6_Step ==
    (Ready /\ puzzle.mode = "normal" /\ AllRevealed(puzzle)) =>
        \A line \in CheckLines : AfterCommand(line).message = Congrats

(* C6: once every white square has been revealed, check says complete; and *)
(* N reveals from the initial state (N white squares) reveal every white   *)
(* square, after which check says complete.                                *)
C6_RevealAll == C6_FromInitial /\ C6_Step

\* every square of a grid with a black square and at least four white ones
\* is revealed and check has said complete
C6_Witness ==
    /\ pc = "run"
    /\ Cardinality(Whites) >= 4
    /\ \E xy \in Coords : ~White(xy)
    /\ AllRevealed(puzzle)
    /\ puzzle.message = Congrats

----------------------------------------------------------------------------
\* a key that is neither a letter nor bound in insert mode
InsertUnbound == puzzle.mode = "insert" /\ \E key \in {"1", "$"} : Press(key, <<>>)

(* C7: a key that maps to no action, in normal mode and in insert mode     *)
(* alike, leaves the cursor, the direction, the mode and every square      *)
(* unchanged.                                                              *)
C7_UnboundIgnored ==
    [][(KeyUnbound \/ InsertUnbound) => (puzzle' = puzzle /\ pending' = pending)]_vars

----------------------------------------------------------------------------
Delta(key) ==
    CASE key = "k" -> <<0, -1>>
      [] key = "j" -> <<0, 1>>
      [] key = "h" -> <<-1, 0>>
      [] key = "l" -> <<1, 0>>

\* the distances of the white squares strictly beyond the cursor along d
Beyond(d) == {n \in 1..(FileW + FileH) : White(Shift(Cur, d, n))}

Nearest(d) ==
    IF Beyond(d) = {} THEN Cur
    ELSE Shift(Cur, d, CHOOSE n \in Beyond(d) : \A m \in Beyond(d) : n <= m)

(* C8: a unit move puts the cursor on the nearest white square strictly    *)
(* beyond it along the step, over any black squares in between, and leaves *)
(* it where it is when there is none; direction, mode and squares are      *)
(* unchanged.                                                              *)
C8_Move ==
    (Ready /\ puzzle.mode = "normal") =>
        \A key \in {"k", "j", "h", "l"} :
            /\ <<After(key).x, After(key).y>> = Nearest(Delta(key))
            /\ After(key).direction = puzzle.direction
            /\ After(key).mode = puzzle.mode
            /\ After(key).grid = puzzle.grid


\* the cursor has left its first square and stands, in its row or in its
\* column, two black squares beyond a white square
C8_Witness ==
    /\ pc = "run"
    /\ puzzle.mode = "normal"
    /\ \E d \in {<<-1, 0>>, <<0, -1>>} :
          /\ InGrid(Shift(Cur, d, 1)) /\ ~White(Shift(Cur, d, 1))
          /\ InGrid(Shift(Cur, d, 2)) /\ ~White(Shift(Cur, d, 2))
          /\ White(Shift(Cur, d, 3))
    /\ Cur # FirstWhite

----------------------------------------------------------------------------
\* the clues met from clue i of direction d along the next links, at most
\* fuel of them
RECURSIVE ClueChain(_, _, _)
ClueChain(d, i, fuel) ==
    IF i = NoClue \/ fuel = 0 THEN <<>>
    ELSE <<i>> \o ClueChain(d, puzzle.clues[d][i].next, fuel - 1)

(* C11: in each direction the next links, followed from the first clue of  *)
(* the list, visit every clue of the direction exactly once, in strictly   *)
(* increasing clue number, and end at a clue whose next is nil; prev is    *)
(* the inverse of next, so the chain has no cycle.                         *)
C11_ClueChain ==
    pc = "run" =>
        \A d \in Dirs :
            LET clues == puzzle.clues[d]
                n     == Len(clues)
                chain == ClueChain(d, 1, n + 1)
            IN  /\ n >= 1
                /\ Len(chain) = n
                /\ Range(chain) = 1..n
                /\ clues[chain[n]].next = NoClue
                /\ clues[chain[1]].prev = NoClue
                /\ \A k \in 1..(n - 1) :
                      clues[chain[k]].number < clues[chain[k + 1]].number
                /\ \A i \in 1..n :
                      /\ clues[i].next # NoClue => clues[clues[i].next].prev = i
                      /\ clues[i].prev # NoClue => clues[clues[i].prev].next = i

\* a built grid with a black square, three or more clues in one direction
\* and a different number of clues in the other
C11_Witness ==
    /\ pc = "run"
    /\ \E xy \in Coords : ~White(xy)
    /\ Len(puzzle.clues.across) >= 3
    /\ Len(puzzle.clues.down) >= 2
    /\ Len(puzzle.clues.across) # Len(puzzle.clues.down)

----------------------------------------------------------------------------
\* the strings the file holds after title, author and copyright
Supplement == Len(parse(file).strings) - 3

\* the clue strings among them are not as many as the header declares,
\* whether or not the last of them is taken for the notes
Miscounted ==
    /\ Supplement >= 0
    /\ Supplement # file.nclues
    /\ Supplement - 1 # file.nclues

(* C12: when the number of clue strings after title, author and copyright  *)
(* is not the clue count the header declares, decoding fails with a format *)
(* error before any Puzzle is constructed, and no puzzle is produced.      *)
C12_ClueCount ==
    (pc # "start" /\ Miscounted) => (pc = "failed" /\ puzzle = NoPuzzle)

----------------------------------------------------------------------------
BangLines == {<<"c", "!">>, <<"c", "h", "e", "c", "k", "!">>}

(* C13: check with markWrong leaves the status cross on exactly the white  *)
(* squares that are wrong at the time of the check (filled and different   *)
(* from the answer); when the outcome is has-wrong, doing-fine or complete *)
(* no square is left with status pencil; no buffer changes; when there is  *)
(* nothing to check no status changes.                                     *)
C13_CheckMarks ==
    (Ready /\ puzzle.mode = "normal") => \A line \in BangLines :
        LET q == AfterCommand(line)
            o == Outcome(q.message)
        IN  /\ \A z \in Coords :
                  /\ At(q.grid, z).buffer = Sq(z).buffer
                  /\ (At(q.grid, z).status = CROSS) <=> (White(z) /\ IsWrongAt(z))
                  /\ ~(White(z) /\ IsWrongAt(z)) =>
                        At(q.grid, z).status \in {Sq(z).status, NORMAL}
            /\ o \in {"has-wrong", "doing-fine", "complete"} =>
                  \A z \in Coords : At(q.grid, z).status # PENCIL
            /\ o = "nothing-to-check" => q.grid = puzzle.grid
            /\ o # "none"

\* check! has counted one wrong square and marked it; the other white
\* square holds its answer
C13_Witness ==
    /\ pc = "run"
    /\ puzzle.message = Found(1)
    /\ \E z \in Whites : Sq(z).status = CROSS /\ IsWrongAt(z)
    /\ \E z \in Whites : Sq(z).status = NORMAL /\ Sq(z).buffer = AnswerAt(z)

----------------------------------------------------------------------------
\* the spans of the clues from the i-th on, one after the other
RECURSIVE Flatten(_, _)
Flatten(clues, i) ==
    IF i > Len(clues) THEN <<>> ELSE clues[i].span \o Flatten(clues, i + 1)

\* the traversal order of a direction: the squares of its clues in the order
\* of the clue list
Traversal(d) == Flatten(puzzle.clues[d], 1)

\* the position of square xy in the traversal of direction d
Place(d, xy) == CHOOSE k \in 1..Len(Traversal(d)) : Traversal(d)[k] = xy

\* the square before the cursor in the traversal; at the very first square,
\* the last square of the last clue of the other direction
Behind ==
    IF Place(puzzle.direction, Cur) > 1
    THEN Traversal(puzzle.direction)[Place(puzzle.direction, Cur) - 1]
    ELSE Traversal(Other(puzzle.direction))[Len(Traversal(Other(puzzle.direction)))]

\* the delete key of insert mode clears the square behind the cursor, ends
\* on it and changes no other square
ClearsBehind(q) ==
    /\ <<q.x, q.y>> = Behind
    /\ GridEffect(q, Behind, EMPTY, NORMAL)
    /\ q.mode = "insert"

\* C14 as stated: the delete key of insert mode clears the square retreat
\* lands on, on which the cursor ends, and the square that was under the
\* cursor keeps its buffer and status
C14_BackspaceKeeps ==
    (Ready /\ puzzle.mode = "insert") =>
        /\ ClearsBehind(After(DEL))
        /\ At(After(DEL).grid, Cur).buffer = Sq(Cur).buffer
        /\ At(After(DEL).grid, Cur).status = Sq(Cur).status

(* C14, amended: the delete key of insert mode performs retreat and then   *)
(* delete: the square cleared (buffer empty, status normal) is the square  *)
(* before the cursor in the direction's traversal, or the last square of   *)
(* the other direction's last clue when the cursor is on the direction's   *)
(* very first square; the cursor ends on it and no other square changes,   *)
(* so the square that was under the cursor keeps its buffer and status -   *)
(* unless it is the only white square of the grid, where retreat lands on  *)
(* it again.                                                               *)
C14_Backspace ==
    (Ready /\ puzzle.mode = "insert") =>
        /\ ClearsBehind(After(DEL))
        /\ Cardinality(Whites) > 1 =>
              /\ Behind # Cur
              /\ At(After(DEL).grid, Cur) = Sq(Cur)
        /\ Cardinality(Whites) = 1 => Behind = Cur

\* in insert mode the cursor stands on an empty square at the end of the
\* down traversal, the squares before it filled, on a grid with a black
\* square: where the delete key lands from the first across square
C14_Witness ==
    /\ pc = "run"
    /\ puzzle.mode = "insert"
    /\ puzzle.direction = "down"
    /\ \E xy \in Coords : ~White(xy)
    /\ Cardinality(Whites) >= 3
    /\ Cur = Traversal("down")[Len(Traversal("down"))]
    /\ Sq(Cur).buffer = EMPTY
    /\ \A w \in Whites \ {Cur} : Sq(w).buffer # EMPTY

----------------------------------------------------------------------------
(* C15: togglePencil on a non-empty square turns that square's status      *)
(* pencil into normal, normal into pencil and cross into pencil and leaves *)
(* its buffer; on an empty square it changes no buffer and no status.      *)
C15_TogglePencil ==
    (Ready /\ puzzle.mode = "normal") =>
        IF Sq(Cur).buffer # EMPTY
        THEN GridEffect(After("~"), Cur, Sq(Cur).buffer,
                        CASE Sq(Cur).status = PENCIL -> NORMAL
                          [] Sq(Cur).status = NORMAL -> PENCIL
                          [] Sq(Cur).status = CROSS  -> PENCIL)
        ELSE After("~").grid = puzzle.grid

\* a letter typed in lower case carries the status pencil, beside a square
\* marked wrong
C15_Witness ==
    /\ pc = "run"
    /\ pending = "none"
    /\ \E z \in Whites : Sq(z).buffer = "A" /\ Sq(z).status = PENCIL
    /\ \E z \in Whites : Sq(z).status = CROSS

----------------------------------------------------------------------------
PlainLines == {<<"c">>, <<"c", "h", "e", "c", "k">>, <<" ", "c", " ">>}

(* C16: check without markWrong only classifies: whatever the outcome, it  *)
(* leaves the buffer and the status of every square as they are, pencil    *)
(* statuses included.                                                      *)
C16_CheckOnly ==
    (Ready /\ puzzle.mode = "normal") => \A line \in PlainLines :
        /\ Outcome(AfterCommand(line).message) # "none"
        /\ AfterCommand(line).grid = puzzle.grid

----------------------------------------------------------------------------
(* C17: after construction the neighbour references of a square stay       *)
(* within its clue's span: in each direction the next reference of the     *)
(* last square of every span and the prev reference of the first square of *)
(* every span are nil, and elsewhere next and prev are the adjacent        *)
(* squares of the same span.                                               *)
C17_SquareLinks ==
    pc = "run" =>
        \A c \in ClueIds : IsClue(c) =>
            LET span == ClueOf(c).span
            IN  \A k \in 1..Len(span) :
                   /\ Sq(span[k]).next[c[1]] =
                         IF k = Len(span) THEN NoSquare ELSE span[k + 1]
                   /\ Sq(span[k]).prev[c[1]] =
                         IF k = 1 THEN NoSquare ELSE span[k - 1]

----------------------------------------------------------------------------
(* Vocabulary of the searches *)

Reverse(seq) == [i \in 1..Len(seq) |-> seq[Len(seq) + 1 - i]]

\* the squares strictly after the cursor in the traversal of its direction,
\* nearest first; backward, the squares strictly before it, nearest first
Ahead(forward) ==
    LET t == Traversal(puzzle.direction)
        k == Place(puzzle.direction, Cur)
    IN  IF forward THEN SubSeq(t, k + 1, Len(t)) ELSE Reverse(SubSeq(t, 1, k - 1))

\* what a search looks for: a letter, the empty buffer, or a status
Meets(kind, value, xy) ==
    CASE kind = "letter" -> Sq(xy).buffer = value
      [] kind = "empty"  -> Sq(xy).buffer = EMPTY
      [] kind = "status" -> Sq(xy).status = value

\* the first of these squares that meets the condition, the cursor's own
\* square when none does
FirstMeeting(kind, value, squares) ==
    LET hits == {i \in 1..Len(squares) : Meets(kind, value, squares[i])}
    IN  IF hits = {} THEN Cur
        ELSE squares[CHOOSE i \in hits : \A j \in hits : i <= j]

\* the plain search: the first square that meets the condition strictly
\* beyond the cursor
PlainLanding(kind, value, forward) == FirstMeeting(kind, value, Ahead(forward))

\* the skipping search: the run of squares that meet the condition is
\* skipped, beginning with the cursor's own square, and the first square
\* that meets it after that run is taken
SkipLanding(kind, value, forward) ==
    LET squares == <<Cur>> \o Ahead(forward)
        run     == CHOOSE n \in 0..Len(squares) :
                      /\ \A i \in 1..n : Meets(kind, value, squares[i])
                      /\ n < Len(squares) => ~Meets(kind, value, squares[n + 1])
    IN  FirstMeeting(kind, value, SubSeq(squares, run + 1, Len(squares)))

\* the letter a search reads from the keyboard looks for
Letter(key) == CASE key = "a" -> "A" [] key = "j" -> "J" [] OTHER -> key

\* q is the puzzle with the cursor on xy and nothing else moved or written
OnlyJumps(q, xy) ==
    /\ <<q.x, q.y>> = xy
    /\ q.direction = puzzle.direction
    /\ q.mode = puzzle.mode
    /\ q.grid = puzzle.grid

\* the puzzle after f or F has read this key, and after ] or [ has
AfterLetter(key) == getkey_find(puzzle, pending, key).p

AfterStatus(key) == getkey_status(puzzle, pending, key).p

----------------------------------------------------------------------------
\* C18 as stated, for every search that calls find: the cursor goes to the
\* first square that meets the condition strictly after (forward) or before
\* (backward) it in the traversal of its direction and stays when there is
\* none; direction, mode and squares are unchanged
C18_FindFirst ==
    /\ (Ready /\ puzzle.mode = "normal") =>
          /\ OnlyJumps(After("}"), PlainLanding("empty", EMPTY, TRUE))
          /\ OnlyJumps(After("{"), PlainLanding("empty", EMPTY, FALSE))
    /\ (pc = "run" /\ pending \in {"f", "F"}) => \A key \in LetterKeys :
          OnlyJumps(AfterLetter(key), PlainLanding("letter", Letter(key), pending = "f"))
    /\ (pc = "run" /\ pending \in {"]", "["}) =>
          /\ OnlyJumps(AfterStatus("q"), PlainLanding("status", PENCIL, pending = "]"))
          /\ OnlyJumps(AfterStatus("w"), PlainLanding("status", CROSS, pending = "]"))

(* C18, amended: find without repeat-skipping, as the letter searches f    *)
(* and F call it, moves the cursor to the first square that meets the      *)
(* condition among the squares strictly after (forward) or strictly        *)
(* before (backward) the cursor in the traversal of the current direction, *)
(* and leaves it when there is none.  find with repeat-skipping, its       *)
(* default, as the searches for an empty square and for a status call it,  *)
(* first skips the run of squares that meet the condition beginning at the *)
(* cursor itself and moves to the first square that meets it after that    *)
(* run, if any.  Either way find never selects the square under the        *)
(* cursor and never changes direction, mode or any square.                 *)
C18_Find ==
    /\ (Ready /\ puzzle.mode = "normal") =>
          /\ OnlyJumps(After("}"), SkipLanding("empty", EMPTY, TRUE))
          /\ OnlyJumps(After("{"), SkipLanding("empty", EMPTY, FALSE))
    /\ (pc = "run" /\ pending \in {"f", "F"}) => \A key \in LetterKeys :
          OnlyJumps(AfterLetter(key), PlainLanding("letter", Letter(key), pending = "f"))
    /\ (pc = "run" /\ pending \in {"]", "["}) =>
          /\ OnlyJumps(AfterStatus("q"), SkipLanding("status", PENCIL, pending = "]"))
          /\ OnlyJumps(AfterStatus("w"), SkipLanding("status", CROSS, pending = "]"))
          /\ OnlyJumps(AfterStatus("1"), Cur)

\* a backward letter search in the down direction has put the cursor on a
\* square that holds the letter, coming from a pencilled square, with an
\* empty square further back
C18_Witness ==
    /\ pc = "run"
    /\ pending = "none"
    /\ puzzle.direction = "down"
    /\ puzzle.find_letter = "A"
    /\ puzzle.find_forward = FALSE
    /\ Sq(Cur).buffer = "A"
    /\ \E i \in 1..Len(Ahead(TRUE)) : Sq(Ahead(TRUE)[i]).status = PENCIL
    /\ \E i \in 1..Len(Ahead(FALSE)) : Sq(Ahead(FALSE)[i]).buffer = EMPTY

----------------------------------------------------------------------------
\* a letter search has been made, so that ; and , have one to repeat
Remembered == Ready /\ puzzle.mode = "normal" /\ puzzle.find_letter # NoLetter

\* C19 as stated: ; and , repeat the last letter search with the skipping
\* search, so that from inside a run of the letter the cursor lands in the
\* next separate run and not on the adjacent square of the same run
C19_RepeatSkips ==
    Remembered =>
        /\ OnlyJumps(After(";"),
                     SkipLanding("letter", puzzle.find_letter, puzzle.find_forward))
        /\ OnlyJumps(After(","),
                     SkipLanding("letter", puzzle.find_letter, ~puzzle.find_forward))

(* C19, amended: ; repeats the last f or F search in its direction and ,   *)
(* in the opposite direction, both with the plain search and not with the  *)
(* skipping one: the cursor moves to the first square, strictly after or   *)
(* before it in the traversal, whose buffer is the remembered letter, also *)
(* when that is the adjacent square of the run the cursor is in, and stays *)
(* when there is none; the letter and the direction stay remembered, and   *)
(* before any letter search ; and , do nothing.                            *)
C19_Repeat ==
    /\ Remembered =>
          /\ OnlyJumps(After(";"),
                       PlainLanding("letter", puzzle.find_letter, puzzle.find_forward))
          /\ OnlyJumps(After(","),
                       PlainLanding("letter", puzzle.find_letter, ~puzzle.find_forward))
          /\ \A key \in {";", ","} :
                /\ After(key).find_letter = puzzle.find_letter
                /\ After(key).find_forward = puzzle.find_forward
    /\ (Ready /\ puzzle.mode = "normal" /\ puzzle.find_letter = NoLetter) =>
          \A key \in {";", ","} : After(key) = puzzle
    /\ (pc = "run" /\ pending \in {"f", "F"}) => \A key \in LetterKeys :
          /\ AfterLetter(key).find_letter = Letter(key)
          /\ AfterLetter(key).find_forward = (pending = "f")

\* after a forward search for A the cursor stands inside a run of three A:
\* the square before it and the square after it both hold the letter
C19_Witness ==
    /\ pc = "run"
    /\ pending = "none"
    /\ puzzle.find_letter = "A"
    /\ puzzle.find_forward = TRUE
    /\ Sq(Cur).buffer = "A"
    /\ Len(Ahead(TRUE)) >= 1 /\ Sq(Ahead(TRUE)[1]).buffer = "A"
    /\ Len(Ahead(FALSE)) >= 1 /\ Sq(Ahead(FALSE)[1]).buffer = "A"

----------------------------------------------------------------------------
\* the puzzle after the letter j has been typed in insert mode: J with status
\* normal under the cursor, and the cursor advanced to the next square of the
\* traversal or, from its last square, to the first square of the other
\* direction, which becomes the direction
TypedJ ==
    LET grid == [puzzle.grid EXCEPT ![Cur[2] + 1][Cur[1] + 1] =
                    [@ EXCEPT !.buffer = "J", !.status = NORMAL]]
        stay == Ahead(TRUE) # <<>>
        to   == IF stay THEN Ahead(TRUE)[1] ELSE Traversal(Other(puzzle.direction))[1]
    IN  [puzzle EXCEPT !.grid = grid, !.x = to[1], !.y = to[2],
                       !.direction = IF stay THEN @ ELSE Other(@)]

\* q is the puzzle back in normal mode with nothing moved or written
BackToNormal(q) ==
    /\ q.mode = "normal"
    /\ <<q.x, q.y>> = Cur
    /\ q.direction = puzzle.direction
    /\ q.grid = puzzle.grid

\* the keys of normal mode other than i and a
OtherKeys ==
    {"k", "j", "h", "l", "0", "$", "w", "b", "f", "F", ";", ",", "}", "{",
     "]", "[", "r", "x", " ", "~", ":", TAB, "?"} \cup UnboundKeys

(* C20: in insert mode j then k switches to normal mode and writes nothing *)
(* (cursor, direction and squares unchanged), and so does the escape key;  *)
(* j then any other key X is typing the letter j (J, status normal, then   *)
(* advance) followed by X handled as a fresh key of insert mode, also when *)
(* X is j and begins a new chord; the mode becomes insert through the keys *)
(* i and a only.                                                           *)
C20_Chord ==
    /\ (pc = "run" /\ pending = "j") =>
          /\ puzzle.mode = "insert"
          /\ BackToNormal(getkey_chord(puzzle, "k").p)
          /\ getkey_chord(puzzle, "k").wait = "none"
          /\ \A X \in ChordKeys \ {"k"} :
                getkey_chord(puzzle, X) = handle(TypedJ, X, <<>>)
          /\ getkey_chord(puzzle, "j") = Blocked(TypedJ, "j")
    /\ (Ready /\ puzzle.mode = "insert") =>
          /\ BackToNormal(After(ESC))
          /\ handle(puzzle, "j", <<>>) = Blocked(puzzle, "j")
    /\ (Ready /\ puzzle.mode = "normal") =>
          /\ After("i").mode = "insert"
          /\ After("a").mode = "insert"
          /\ \A key \in OtherKeys : \A line \in Lines :
                handle(puzzle, key, line).p.mode = "normal"
    /\ (pc = "run" /\ pending \in {"f", "F", "]", "[", "r"}) =>
          /\ puzzle.mode = "normal"
          /\ \A key \in LetterKeys \cup StatusKeys :
                /\ getkey_find(puzzle, pending, key).p.mode = "normal"
                /\ getkey_status(puzzle, pending, key).p.mode = "normal"
                /\ getkey_replace(puzzle, key).p.mode = "normal"

\* a chord has just been begun again after broken chords have typed J, with
\* status normal, into every white square
C20_Witness ==
    /\ pc = "run"
    /\ pending = "j"
    /\ puzzle.mode = "insert"
    /\ \A w \in Whites : Sq(w).buffer = "J" /\ Sq(w).status = NORMAL

----------------------------------------------------------------------------
\* the puzzles met by n consecutive advances from p, p first
RECURSIVE Advances(_, _)
Advances(p, n) == IF n = 0 THEN <<>> ELSE <<p>> \o Advances(advance(p), n - 1)

\* the squares of direction d in traversal order, each paired with d
Paired(d) == [k \in 1..Len(Traversal(d)) |-> <<Traversal(d)[k], d>>]

\* the round trip of the cursor: every across clue in list order, then every
\* down clue in list order
RoundTrip == Paired("across") \o Paired("down")

\* the cursor and direction of each puzzle of a sequence
Stations(orbit) ==
    [k \in 1..Len(orbit) |-> <<<<orbit[k].x, orbit[k].y>>, orbit[k].direction>>]

\* seq is the round trip trip, entered at the first element of seq
GoesRound(seq, trip) ==
    /\ Len(seq) = Len(trip)
    /\ \E s \in 1..Len(trip) :
          \A k \in 1..Len(seq) : seq[k] = trip[((s + k - 2) % Len(trip)) + 1]

\* the clue lists run in number order
InNumberOrder ==
    \A d \in Dirs : \A i \in 1..(Len(puzzle.clues[d]) - 1) :
        puzzle.clues[d][i].number < puzzle.clues[d][i + 1].number

(* C21: with N white squares, 2N consecutive advances from any reachable   *)
(* state come back to the starting cursor and direction and visit every    *)
(* pair of a white square and a direction exactly once, going through all  *)
(* across clues in number order, then all down clues in number order,      *)
(* cyclically.                                                             *)
C21_AdvanceCycle ==
    pc = "run" =>
        LET N     == Cardinality(Whites)
            orbit == Advances(puzzle, 2 * N + 1)
            seq   == Stations(SubSeq(orbit, 1, 2 * N))
        IN  /\ InNumberOrder
            /\ orbit[2 * N + 1] = puzzle
            /\ seq[1] = <<Cur, puzzle.direction>>
            /\ GoesRound(seq, RoundTrip)
            /\ \A j, k \in 1..(2 * N) : seq[j] = seq[k] => j = k
            /\ Range(seq) = Whites \X Dirs

\* the key a has advanced the cursor from the last square of the last across
\* clue to the first square of the first down clue, on a grid with a black
\* square and several clues in each direction
C21_Witness ==
    /\ pc = "run"
    /\ puzzle.mode = "insert"
    /\ puzzle.direction = "down"
    /\ Cur = Traversal("down")[1]
    /\ Whites # Coords
    /\ Len(puzzle.clues.across) >= 2
    /\ Len(puzzle.clues.down) >= 3

----------------------------------------------------------------------------
\* the buffer the file gives square xy
BufferAt(xy) == file.buffer[xy[2] + 1][xy[1] + 1]

(* C22: in every state reached from the constructed puzzle by key events   *)
(* and checks, a square with an empty buffer has status normal, so pencil  *)
(* and cross occur on filled squares only, and a black square has the      *)
(* buffer and the status it began with.                                    *)
C22_EmptyNormal ==
    pc = "run" =>
        /\ \A xy \in Whites :
              /\ Sq(xy).buffer = EMPTY => Sq(xy).status = NORMAL
              /\ Sq(xy).status \in {PENCIL, CROSS} => Sq(xy).buffer # EMPTY
        /\ \A xy \in Coords \ Whites :
              /\ Sq(xy).buffer = BufferAt(xy)
              /\ Sq(xy).status = NORMAL

\* a check with bang has crossed the one wrong square of a grid whose black
\* square holds a letter in the file's buffer
C22_Witness ==
    /\ pc = "run"
    /\ \E xy \in Coords \ Whites : BufferAt(xy) = "J"
    /\ \E xy \in Whites : Sq(xy).status = CROSS
    /\ puzzle.message = Found(1)

----------------------------------------------------------------------------
\* q has the buffer and the status of every square as they are
SameMarks(q) ==
    \A xy \in Coords :
        /\ At(q.grid, xy).buffer = Sq(xy).buffer
        /\ At(q.grid, xy).status = Sq(xy).status

\* the conditions the searches look for: a letter, an empty square, a
\* pencilled square
Conditions == {BufferIs("A"), BufferIs("J"), IsEmpty, StatusIs(PENCIL)}

\* the steps of move
Deltas == {<<0, -1>>, <<0, 1>>, <<-1, 0>>, <<1, 0>>}

\* q has the marks and the direction as they are
SameMarksAndDirection(q) == SameMarks(q) /\ q.direction = puzzle.direction

(* C23: move, start, end, next, prev, toggle, advance, retreat, find,      *)
(* insert and escape change no square's buffer or status; toggle leaves    *)
(* the cursor where it is and two toggles restore the direction; move,     *)
(* start, end and find leave the direction as it is.                       *)
C23_Frame ==
    pc = "run" =>
        /\ \A d \in Deltas : SameMarksAndDirection(move(puzzle, d[1], d[2]))
        /\ \A c \in Conditions : \A forward, skip \in BOOLEAN :
              SameMarksAndDirection(find(puzzle, c, forward, skip))
        /\ SameMarksAndDirection(start(puzzle))
        /\ SameMarksAndDirection(end(puzzle))
        /\ SameMarks(next(puzzle))
        /\ SameMarks(prev(puzzle))
        /\ SameMarks(toggle(puzzle))
        /\ SameMarks(advance(puzzle))
        /\ SameMarks(retreat(puzzle))
        /\ SameMarks(insert(puzzle))
        /\ SameMarks(escape(puzzle))
        /\ <<toggle(puzzle).x, toggle(puzzle).y>> = Cur
        /\ toggle(puzzle).direction # puzzle.direction
        /\ toggle(toggle(puzzle)).direction = puzzle.direction

\* a search has been done in the down direction on a grid that holds a
\* pencilled letter, a plain letter and an empty square, and a search from
\* here moves the cursor
C23_Witness ==
    /\ Ready
    /\ puzzle.direction = "down"
    /\ puzzle.find_letter # NoLetter
    /\ \E xy \in Whites : Sq(xy).status = PENCIL
    /\ \E xy \in Whites : Sq(xy).buffer # EMPTY /\ Sq(xy).status = NORMAL
    /\ \E xy \in Whites : Sq(xy).buffer = EMPTY
    /\ \E c \in Conditions : cursor(find(puzzle, c, TRUE, TRUE)) # Cur

============================================================================
